---------------------------- MODULE Spec2Model ----------------------------
(***************************************************************************)
(* A model of the file-streamer engine (package file_streamer):            *)
(*   - the Streamer lifecycle (Start / Stop / IsRunning),                   *)
(*   - its three goroutines (sendChangeEvents, logNotifyErrors,            *)
(*     eventsRouter) and the subscriptions map the router owns,            *)
(*   - Listener (NewListener / Close) with its buffered wake channel,      *)
(*   - StreamTo, the blocking per-listener session, step by step,          *)
(*   - the collaborators at their interface: the fsnotify watcher, the     *)
(*     watched files, the bufio sink and the time.Timer of a session.      *)
(***************************************************************************)
EXTENDS Integers, Sequences, FiniteSets, TLC

(***************************************************************************)
(* Bounds of the model.                                                    *)
(***************************************************************************)
\* Longest file, in bytes.
MaxFileLen == 2
\* Capacity of a listener's newDataNotifications channel: 100 in
\* NewListener (listener.go:33), scaled down.
NotifCap == 2
\* Capacity of changedFileNames: 1000 in init (streamer.go:203), scaled down.
ChangedCap == 2
\* Events the watcher holds that sendChangeEvents has not yet read.
MaxFsEvents == 1
\* Copy/flush failures the environment injects in one run.
MaxIOFailures == 1
\* The positive idle timeout, in clock ticks.
IdleTicks == 1

Paths     == {"a", "b"}
Listeners == {"l1", "l2"}
Callers   == {"c1", "c2"}

\* The byte the session writes as its diagnostic ("Could not stream file data").
Diag == 0

\* const block of streamer.go
stateStopped  == "Stopped"
stateStarting == "Starting"
stateRunning  == "Running"
stateStopping == "Stopping"

ErrNone       == "nil"
ErrNotRunning == "ErrNotRunning"
ErrRunning    == "ErrRunning"
ErrInit       == "ErrNewWatcher"
ErrCopy       == "ErrCopy"
ErrFlush      == "ErrFlush"
NoRet         == "none"

VARIABLES
    \* ---- Streamer
    state,          \* s.state
    fsNotify,       \* s.fsNotify: "nil", "open" or "closed"
    watched,        \* the paths the watcher has an (inotify) watch on
    fsEvents,       \* s.fsNotify.Events: paths not yet read by sendChangeEvents
    changed,        \* s.changedFileNames: [q: queue of paths, closed: BOOLEAN]
    subscriptions,  \* s.subscriptions: path -> set of wake channels (by listener)
    threads,        \* s.threads (the WaitGroup counter)
    workers,        \* the goroutines of Start that have not returned
    router,         \* eventsRouter: [loop, op, arg]
    panicked,       \* the process died of a runtime panic
    \* ---- callers of Start / Stop
    callerPc, callerRet,
    \* ---- Listener
    file,           \* listener.file.Name()
    filePos,        \* the read cursor of listener.file
    newData,        \* tokens buffered in listener.newDataNotifications
    isClosed,       \* listener.isClosed (the channel is closed)
    sink,           \* listener.writeDataTo: [buf, out, err]
    \* ---- StreamTo
    sessPc,         \* where the StreamTo call of a listener stands
    sessTimeout,    \* its timeout argument
    timer,          \* its timeoutTimer: [armed, left, c]
    sessRet,        \* its result: set at the return statement, returned once
                    \* the deferred unsubscribe has been sent (sessPc idle)
    \* ---- the files
    fileLen, fileExists,
    \* ---- the environment's budget of I/O failures
    ioLeft,
    \* ---- history of the current StreamTo call (read by the properties only)
    hist

engineVars   == <<state, fsNotify, watched, fsEvents, changed, subscriptions,
                  threads, workers, router, panicked>>
callerVars   == <<callerPc, callerRet>>
listenerVars == <<file, filePos, newData, isClosed, sink>>
sessVars     == <<sessPc, sessTimeout, timer, sessRet>>
fileVars     == <<fileLen, fileExists>>
vars == <<engineVars, callerVars, listenerVars, sessVars, fileVars, ioLeft, hist>>


(***************************************************************************)
(* Helpers.                                                                *)
(***************************************************************************)
Min(a, b) == IF a < b THEN a ELSE b

\* Faulty variant: the copy rereads the file from its start.
FileBytes_FromStart(from, to) == [i \in 1..to |-> i]

\* The bytes of a file are numbered by their offset: byte i of every file is i,
\* so a copy that skips, repeats or reorders bytes is visible in the sink.
FileBytes(from, to) == [i \in 1..(to - from) |-> from + i]

\* A map without one key: delete(m, k).
MapDelete(m, k) == [x \in (DOMAIN m) \ {k} |-> m[x]]
\* A map with one key set: m[k] = v.
MapSet(m, k, v) == [x \in (DOMAIN m) \cup {k} |-> IF x = k THEN v ELSE m[x]]

\* The diagnostics a sink holds, buffered or delivered.
Diags(s) == Cardinality({i \in DOMAIN s.buf : s.buf[i] = Diag})
            + Cardinality({i \in DOMAIN s.out : s.out[i] = Diag})

\* The process is alive: no goroutine has panicked.
Alive == ~panicked

(***************************************************************************)
(* Listener (listener.go).                                                 *)
(***************************************************************************)
\* NewListener: an open channel with the one token of the forced initial read.
NewListener == [newData |-> 1, isClosed |-> FALSE]

\* A bufio.Writer on a consumer: the buffered bytes, the bytes the consumer
\* has received, and whether a write to the consumer has failed (bufio keeps
\* the first error and refuses every later Write and Flush).
NewSink == [buf |-> <<>>, out |-> <<>>, err |-> FALSE]

\* The timer of a session that has not created one.
NoTimer == [armed |-> FALSE, left |-> 0, c |-> 0]

\* What the properties remember of a listener's current StreamTo call.
\*   used          the listener has been passed to an admitted StreamTo call
\*   first         the current call is the first such call
\*   closedAtCall  the listener was closed when the call was made
\*   reuse         ... and its channel held no token then
\*   noWatch       the call's subscribe asked for the watch and Add failed
\*   passes        the copies to the end of the file completed (2: two or more)
\*   via           the return statement taken
\*   diag          the sink holds one diagnostic more than before the call
\*   early         the timer branch was taken while the timer was running
\*   owed          the length the file reached by appends made while the
\*                 listener was in the Registry of a Running engine and the
\*                 file was watched
NoHist == [used |-> FALSE, first |-> FALSE, closedAtCall |-> FALSE,
           reuse |-> FALSE, noWatch |-> FALSE,
           passes |-> 0, via |-> "none", diag |-> FALSE, early |-> FALSE,
           owed |-> 0]

\* Listener.Close: closes the channel once; a second call changes nothing.
Close(l) ==
    /\ Alive
    /\ IF isClosed[l]
         THEN UNCHANGED isClosed
         ELSE isClosed' = [isClosed EXCEPT ![l] = TRUE]
    /\ UNCHANGED <<engineVars, callerVars, file, filePos, newData, sink,
                   sessVars, fileVars, ioLeft, hist>>

(***************************************************************************)
(* Initial states.  The listeners are constructed on their files (one of   *)
(* the assignments in files) and have not been streamed.  Init is the state*)
(* after New(logger); InitRunning is the state in which the one call of    *)
(* Start() has returned nil.  failures is the number of copy/flush         *)
(* failures the environment will inject.                                   *)
(***************************************************************************)
InitListeners(files, failures) ==
    /\ file \in files
    /\ filePos = [l \in Listeners |-> 0]
    /\ newData = [l \in Listeners |-> NewListener.newData]
    /\ isClosed = [l \in Listeners |-> NewListener.isClosed]
    /\ sink = [l \in Listeners |-> NewSink]
    /\ sessPc = [l \in Listeners |-> "idle"]
    /\ sessTimeout = [l \in Listeners |-> 0]
    /\ timer = [l \in Listeners |-> NoTimer]
    /\ sessRet = [l \in Listeners |-> NoRet]
    /\ fileLen = [p \in Paths |-> 0]
    /\ fileExists = [p \in Paths |-> TRUE]
    /\ ioLeft = failures
    /\ hist = [l \in Listeners |-> NoHist]
    /\ panicked = FALSE

\* New(logger)
InitStopped ==
    /\ state = stateStopped
    /\ fsNotify = "nil"
    /\ watched = {}
    /\ fsEvents = <<>>
    /\ changed = [q |-> <<>>, closed |-> FALSE]
    /\ subscriptions = <<>>
    /\ threads = 0
    /\ workers = {}
    /\ router = [loop |-> "main", op |-> "select", arg |-> "-"]
    /\ callerPc = [c \in Callers |-> "idle"]
    /\ callerRet = [c \in Callers |-> NoRet]

\* New(logger), then Start() by c1, which returned nil.
InitStarted ==
    /\ state = stateRunning
    /\ fsNotify = "open"
    /\ watched = {}
    /\ fsEvents = <<>>
    /\ changed = [q |-> <<>>, closed |-> FALSE]
    /\ subscriptions = <<>>
    /\ threads = 3
    /\ workers = {"sendChangeEvents", "logNotifyErrors", "eventsRouter"}
    /\ router = [loop |-> "main", op |-> "select", arg |-> "-"]
    /\ callerPc = [c \in Callers |-> "idle"]
    /\ callerRet = [c \in Callers |-> IF c = "c1" THEN ErrNone ELSE NoRet]

\* Both listeners on the file "a"; l1 on "a" and l2 on "b".
SamePath  == {[l \in Listeners |-> "a"]}
OtherPath == {[l \in Listeners |-> IF l = "l1" THEN "a" ELSE "b"]}

Init == InitStopped /\ InitListeners(SamePath, 0)
InitRunning == InitStarted /\ InitListeners(SamePath, 0)
InitRunningIO == InitStarted /\ InitListeners(SamePath, MaxIOFailures)

(***************************************************************************)
(* The watcher (fsnotify) and the files, at their interface.               *)
(***************************************************************************)
\* A change of path p reaches the watcher iff p is watched; the watcher (as
\* inotify does) merges it with an identical event at the tail of its queue.
Emits(p) == fsNotify = "open" /\ p \in watched
Emit(q, p) == IF q # <<>> /\ q[Len(q)] = p THEN q ELSE Append(q, p)
CanEmit(p) == Len(Emit(fsEvents, p)) <= MaxFsEvents

\* An external writer appends one byte to the file at p.
AppendBytes(p) ==
    /\ Alive
    /\ fileExists[p]
    /\ fileLen[p] < MaxFileLen
    /\ Emits(p) => CanEmit(p)
    /\ fileLen' = [fileLen EXCEPT ![p] = @ + 1]
    /\ fsEvents' = IF Emits(p) THEN Emit(fsEvents, p) ELSE fsEvents
    /\ UNCHANGED <<state, fsNotify, watched, changed, subscriptions, threads,
                   workers, router, panicked, callerVars, listenerVars,
                   sessVars, fileExists, ioLeft>>

AppendFile(p) == AppendBytes(p) /\ UNCHANGED hist

\* The same append, noted in the history of every listener that is in the
\* Registry of a Running engine for p while p is watched.
AppendNoted(p) ==
    /\ AppendBytes(p)
    /\ hist' = [l \in Listeners |->
          IF /\ file[l] = p /\ Emits(p) /\ state = stateRunning
             /\ p \in DOMAIN subscriptions /\ l \in subscriptions[p]
            THEN [hist[l] EXCEPT !.owed = fileLen[p] + 1]
            ELSE hist[l]]

\* The file at p is deleted: open descriptors keep reading it, os.Stat of the
\* name fails from now on, and the watch on it ends with a last event.
DeleteFile(p) ==
    /\ Alive
    /\ fileExists[p]
    /\ Emits(p) => CanEmit(p)
    /\ fileExists' = [fileExists EXCEPT ![p] = FALSE]
    /\ fsEvents' = IF Emits(p) THEN Emit(fsEvents, p) ELSE fsEvents
    /\ watched' = watched \ {p}
    /\ UNCHANGED <<state, fsNotify, changed, subscriptions, threads, workers,
                   router, panicked, callerVars, listenerVars, sessVars,
                   fileLen, ioLeft, hist>>

\* s.fsNotify.Add(name): fails (and registers nothing) on a closed watcher or
\* a missing file.
WatcherAdd(w, p) == IF fsNotify = "open" /\ fileExists[p] THEN w \cup {p} ELSE w
\* s.fsNotify.Remove(name): an error when there is no such watch, logged only.
WatcherRemove(w, p) == w \ {p}

(***************************************************************************)
(* sendChangeEvents and logNotifyErrors (streamer.go:84-113).              *)
(***************************************************************************)
\* One turn of the loop: forward an event's name, or return on the closed
\* Events channel (threads.Done, then close(changedFileNames)).
SendChangeEvents ==
    /\ Alive
    /\ "sendChangeEvents" \in workers
    /\ \/ /\ fsEvents # <<>>
          /\ Len(changed.q) < ChangedCap
          /\ changed' = [changed EXCEPT !.q = Append(@, Head(fsEvents))]
          /\ fsEvents' = Tail(fsEvents)
          /\ UNCHANGED <<threads, workers>>
       \/ /\ fsEvents = <<>>
          /\ fsNotify = "closed"
          /\ threads' = threads - 1
          /\ workers' = workers \ {"sendChangeEvents"}
          /\ changed' = [changed EXCEPT !.closed = TRUE]
          /\ UNCHANGED fsEvents
    /\ UNCHANGED <<state, fsNotify, watched, subscriptions, router, panicked,
                   callerVars, listenerVars, sessVars, fileVars, ioLeft, hist>>

\* logNotifyErrors returns when the Errors channel is closed.
LogNotifyErrors ==
    /\ Alive
    /\ "logNotifyErrors" \in workers
    /\ fsNotify = "closed"
    /\ threads' = threads - 1
    /\ workers' = workers \ {"logNotifyErrors"}
    /\ UNCHANGED <<state, fsNotify, watched, fsEvents, changed, subscriptions,
                   router, panicked, callerVars, listenerVars, sessVars,
                   fileVars, ioLeft, hist>>

(***************************************************************************)
(* The subscriptions map (streamer.go:117-148).                            *)
(***************************************************************************)
\* s.fsNotify.Add(name) is called for l (first listener of its file) and
\* returns an error.
AddFails(subs, l) ==
    /\ file[l] \notin DOMAIN subs
    /\ ~(fsNotify = "open" /\ fileExists[file[l]])

\* Faulty variant: a failed Add makes subscribeListener give up.
SubscribeMap_NeedsWatch(subs, l) ==
    IF AddFails(subs, l) THEN subs
    ELSE IF file[l] \in DOMAIN subs
      THEN MapSet(subs, file[l], subs[file[l]] \cup {l})
      ELSE MapSet(subs, file[l], {l})

\* subscribeListener: the map after it.
SubscribeMap(subs, l) ==
    LET p == file[l]
        base == IF p \in DOMAIN subs THEN subs ELSE MapSet(subs, p, {})
    IN  MapSet(base, p, base[p] \cup {l})

\* subscribeListener: the watches after it (Add on the first subscription).
SubscribeWatch(subs, w, l) ==
    IF file[l] \in DOMAIN subs THEN w ELSE WatcherAdd(w, file[l])

\* Faulty variant: unsubscribeListener keeps the entry of a file whose last
\* listener it removed.
UnsubscribeMap_LeaveEmpty(subs, l) ==
    IF file[l] \in DOMAIN subs
      THEN MapSet(subs, file[l], subs[file[l]] \ {l}) ELSE subs

\* Faulty variant: unsubscribeListener forgets the file with any listener.
UnsubscribeMap_DropFile(subs, l) == MapDelete(subs, file[l])

\* Faulty variant: unsubscribeListener leaves the map as it is.
UnsubscribeMap_Keep(subs, l) == subs

\* unsubscribeListener: the map after it.
UnsubscribeMap(subs, l) ==
    LET p == file[l]
        del == IF p \in DOMAIN subs THEN MapSet(subs, p, subs[p] \ {l}) ELSE subs
    IN  IF p \notin DOMAIN del \/ del[p] = {} THEN MapDelete(del, p) ELSE del

\* Faulty variant: unsubscribeListener removes the watch with any listener.
UnsubscribeWatch_Any(subs, w, l) == WatcherRemove(w, file[l])

\* unsubscribeListener: the watches after it (Remove with the last listener).
UnsubscribeWatch(subs, w, l) ==
    LET p == file[l]
    IN  IF p \notin DOMAIN subs \/ subs[p] \ {l} = {}
          THEN WatcherRemove(w, p) ELSE w


(***************************************************************************)
(* eventsRouter (streamer.go:151-188).                                     *)
(***************************************************************************)
RouterRuns == Alive /\ "eventsRouter" \in workers
\* The router is at a select: of the main loop, or of the draining loop,
\* which it enters only while the map is not empty.
RouterSelects ==
    /\ RouterRuns
    /\ router.op = "select"
    /\ router.loop = "drain" => DOMAIN subscriptions # {}

\* case listener := <-s.subscribe: the unbuffered send of StreamTo completes
\* and the session runs on while the router handles the request.
RouterRecvSubscribe(l) ==
    /\ RouterSelects
    /\ sessPc[l] = "subscribe"
    /\ router' = [router EXCEPT !.op = "subscribe", !.arg = l]
    /\ sessPc' = [sessPc EXCEPT ![l] = "getTimer"]
    /\ UNCHANGED <<state, fsNotify, watched, fsEvents, changed, subscriptions,
                   threads, workers, panicked, callerVars, listenerVars,
                   sessTimeout, timer, sessRet, fileVars, ioLeft, hist>>

\* s.subscribeListener(listener)
RouterSubscribeStep ==
    /\ RouterRuns
    /\ router.op = "subscribe"
    /\ subscriptions' = SubscribeMap(subscriptions, router.arg)
    /\ watched' = SubscribeWatch(subscriptions, watched, router.arg)
    /\ router' = [router EXCEPT !.op = "select", !.arg = "-"]
    /\ UNCHANGED <<state, fsNotify, fsEvents, changed, threads, workers,
                   panicked, callerVars, listenerVars, sessVars, fileVars,
                   ioLeft>>

RouterSubscribe == RouterSubscribeStep /\ UNCHANGED hist

\* The same step, with a failure of Add noted in the history of the call.
RouterSubscribeNoted ==
    /\ RouterSubscribeStep
    /\ hist' = [hist EXCEPT ![router.arg].noWatch =
                  AddFails(subscriptions, router.arg)]

\* case listener := <-s.unsubscribe: the deferred send of StreamTo completes
\* and StreamTo returns its result.
RouterRecvUnsubscribe(l) ==
    /\ RouterSelects
    /\ sessPc[l] = "unsubscribe"
    /\ router' = [router EXCEPT !.op = "unsubscribe", !.arg = l]
    /\ sessPc' = [sessPc EXCEPT ![l] = "idle"]
    /\ timer' = [timer EXCEPT ![l] = NoTimer]
    /\ UNCHANGED <<state, fsNotify, watched, fsEvents, changed, subscriptions,
                   threads, workers, panicked, callerVars, listenerVars,
                   sessTimeout, sessRet, fileVars, ioLeft, hist>>

\* s.unsubscribeListener(listener)
RouterUnsubscribe ==
    /\ RouterRuns
    /\ router.op = "unsubscribe"
    /\ subscriptions' = UnsubscribeMap(subscriptions, router.arg)
    /\ watched' = UnsubscribeWatch(subscriptions, watched, router.arg)
    /\ router' = [router EXCEPT !.op = "select", !.arg = "-"]
    /\ UNCHANGED <<state, fsNotify, fsEvents, changed, threads, workers,
                   panicked, callerVars, listenerVars, sessVars, fileVars,
                   ioLeft, hist>>

\* Faulty variant: the dispatch sends without looking at the room left.
ToNotify_NoCap(filename) ==
    IF filename \in DOMAIN subscriptions THEN subscriptions[filename] ELSE {}

\* Faulty variant: the dispatch stops after the first listener of the entry.
ToNotify_First(filename) ==
    IF filename \in DOMAIN subscriptions /\ subscriptions[filename] # {}
      THEN {l \in {CHOOSE k \in subscriptions[filename] : TRUE} :
                newData[l] < NotifCap}
      ELSE {}

\* The listeners a change of filename is sent to: those of its entry whose
\* channel has room (len(toNotify) < cap(toNotify)).
ToNotify(filename) ==
    IF filename \in DOMAIN subscriptions
      THEN {l \in subscriptions[filename] : newData[l] < NotifCap}
      ELSE {}

\* toNotify <- newDataEvent{} on a closed channel panics.
SendPanics(filename) == \E l \in ToNotify(filename) : isClosed[l]

\* case filename, isOpen := <-s.changedFileNames
RouterDispatch ==
    /\ RouterSelects
    /\ router.loop = "main"
    /\ \/ /\ changed.q # <<>>
          /\ changed' = [changed EXCEPT !.q = Tail(@)]
          /\ IF SendPanics(Head(changed.q))
               THEN panicked' = TRUE /\ UNCHANGED newData
               ELSE /\ newData' = [l \in Listeners |->
                         IF l \in ToNotify(Head(changed.q))
                           THEN newData[l] + 1 ELSE newData[l]]
                    /\ UNCHANGED panicked
          /\ UNCHANGED router
       \/ /\ changed.q = <<>>
          /\ changed.closed
          /\ router' = [router EXCEPT !.loop = "drain"]
          /\ UNCHANGED <<changed, newData, panicked>>
    /\ UNCHANGED <<state, fsNotify, watched, fsEvents, subscriptions, threads,
                   workers, callerVars, file, filePos, isClosed, sink,
                   sessVars, fileVars, ioLeft, hist>>

\* Faulty variant: the draining loop does not wait for the map to empty.
RouterMayExit_NoDrain == router.loop = "drain"

\* The draining loop ends when the map is empty: for len(s.subscriptions) != 0.
RouterMayExit == router.loop = "drain" /\ DOMAIN subscriptions = {}

RouterExit ==
    /\ RouterRuns
    /\ router.op = "select"
    /\ RouterMayExit
    /\ threads' = threads - 1
    /\ workers' = workers \ {"eventsRouter"}
    /\ UNCHANGED <<state, fsNotify, watched, fsEvents, changed, subscriptions,
                   router, panicked, callerVars, listenerVars, sessVars,
                   fileVars, ioLeft, hist>>

(***************************************************************************)
(* Start, Stop, IsRunning (streamer.go:196-278).                           *)
(***************************************************************************)
\* Faulty variant: Start checks only that the engine is not running.
StartAdmits_NotRunning == state # stateRunning
\* Faulty variant: Stop also proceeds on an engine that is already stopping.
StopAdmits_Stopping == state \in {stateRunning, stateStopping}
\* Faulty variant: IsRunning takes every state but Stopped for running.
IsRunning_NotStopped == state # stateStopped

\* The check of Start under the mutex.
StartAdmits == state = stateStopped
\* The check of Stop under the mutex.
StopAdmits == state = stateRunning
\* IsRunning
IsRunning == state = stateRunning

\* Start, lines 215-221.
StartCall(c) ==
    /\ Alive
    /\ callerPc[c] = "idle"
    /\ IF StartAdmits
         THEN /\ state' = stateStarting
              /\ callerPc' = [callerPc EXCEPT ![c] = "init"]
              /\ callerRet' = [callerRet EXCEPT ![c] = NoRet]
         ELSE /\ callerRet' = [callerRet EXCEPT ![c] = ErrRunning]
              /\ UNCHANGED <<state, callerPc>>
    /\ UNCHANGED <<fsNotify, watched, fsEvents, changed, subscriptions,
                   threads, workers, router, panicked, listenerVars, sessVars,
                   fileVars, ioLeft, hist>>

\* Start, lines 223-226: s.init() makes a new watcher and a new
\* changedFileNames, or fails, and then Start returns the error.
StartInit(c) ==
    /\ Alive
    /\ callerPc[c] = "init"
    /\ \/ /\ fsNotify' = "open"
          /\ watched' = {}
          /\ fsEvents' = <<>>
          /\ changed' = [q |-> <<>>, closed |-> FALSE]
          /\ callerPc' = [callerPc EXCEPT ![c] = "spawn"]
          /\ UNCHANGED callerRet
       \/ /\ callerPc' = [callerPc EXCEPT ![c] = "idle"]
          /\ callerRet' = [callerRet EXCEPT ![c] = ErrInit]
          /\ UNCHANGED <<fsNotify, watched, fsEvents, changed>>
    /\ UNCHANGED <<state, subscriptions, threads, workers, router, panicked,
                   listenerVars, sessVars, fileVars, ioLeft, hist>>

\* Start, lines 229-235: the three goroutines.
StartSpawn(c) ==
    /\ Alive
    /\ callerPc[c] = "spawn"
    /\ threads' = threads + 3
    /\ workers' = workers \cup {"sendChangeEvents", "logNotifyErrors", "eventsRouter"}
    /\ router' = [loop |-> "main", op |-> "select", arg |-> "-"]
    /\ callerPc' = [callerPc EXCEPT ![c] = "setRunning"]
    /\ UNCHANGED <<state, fsNotify, watched, fsEvents, changed, subscriptions,
                   panicked, callerRet, listenerVars, sessVars, fileVars,
                   ioLeft, hist>>

\* Start, lines 237-241.
StartSetRunning(c) ==
    /\ Alive
    /\ callerPc[c] = "setRunning"
    /\ state' = stateRunning
    /\ callerPc' = [callerPc EXCEPT ![c] = "idle"]
    /\ callerRet' = [callerRet EXCEPT ![c] = ErrNone]
    /\ UNCHANGED <<fsNotify, watched, fsEvents, changed, subscriptions,
                   threads, workers, router, panicked, listenerVars, sessVars,
                   fileVars, ioLeft, hist>>

\* Stop, lines 250-256.
StopCall(c) ==
    /\ Alive
    /\ callerPc[c] = "idle"
    /\ IF StopAdmits
         THEN /\ state' = stateStopping
              /\ callerPc' = [callerPc EXCEPT ![c] = "closeWatcher"]
              /\ callerRet' = [callerRet EXCEPT ![c] = NoRet]
         ELSE /\ callerRet' = [callerRet EXCEPT ![c] = ErrNotRunning]
              /\ UNCHANGED <<state, callerPc>>
    /\ UNCHANGED <<fsNotify, watched, fsEvents, changed, subscriptions,
                   threads, workers, router, panicked, listenerVars, sessVars,
                   fileVars, ioLeft, hist>>

\* Stop, line 258: s.fsNotify.Close() closes Events and Errors and drops the
\* watches and the events not yet read.
StopCloseWatcher(c) ==
    /\ Alive
    /\ callerPc[c] = "closeWatcher"
    /\ fsNotify' = "closed"
    /\ watched' = {}
    /\ fsEvents' = <<>>
    /\ callerPc' = [callerPc EXCEPT ![c] = "wait"]
    /\ UNCHANGED <<state, changed, subscriptions, threads, workers, router,
                   panicked, callerRet, listenerVars, sessVars, fileVars,
                   ioLeft, hist>>

\* s.threads.Wait() returns when the counter is zero.
WaitReturns == threads = 0

\* Stop, lines 259-265: threads.Wait(), then Stopped and return nil.
StopFinish(c) ==
    /\ Alive
    /\ callerPc[c] = "wait"
    /\ WaitReturns
    /\ state' = stateStopped
    /\ callerPc' = [callerPc EXCEPT ![c] = "idle"]
    /\ callerRet' = [callerRet EXCEPT ![c] = ErrNone]
    /\ UNCHANGED <<fsNotify, watched, fsEvents, changed, subscriptions,
                   threads, workers, router, panicked, listenerVars, sessVars,
                   fileVars, ioLeft, hist>>


(***************************************************************************)
(* The sink (bufio.Writer) and the timer (time.Timer) of a session.        *)
(***************************************************************************)
\* Write: into the buffer, unless an earlier write to the consumer failed.
SinkWrite(s, bytes) == IF s.err THEN s ELSE [s EXCEPT !.buf = @ \o bytes]
\* Flush: the buffer reaches the consumer, or the write fails and sticks.
SinkFlush(s, fails) ==
    IF s.err THEN s
    ELSE IF fails THEN [s EXCEPT !.err = TRUE]
    ELSE [s EXCEPT !.out = @ \o s.buf, !.buf = <<>>]

\* getTimer: a timer of the duration, or for 0 one that has fired and been
\* drained, which never fires again unless it is reset.
GetTimer(duration) ==
    IF duration = 0
      THEN [armed |-> FALSE, left |-> 0, c |-> 0]
      ELSE [armed |-> TRUE, left |-> duration, c |-> 0]

\* timeoutTimer.Reset(timeout) on a timer that was neither stopped nor
\* drained: a tick already in timer.C stays there or is dropped, as the Go
\* runtime the program is built for has it.
TimerReset(t, duration) ==
    {[armed |-> TRUE, left |-> duration, c |-> c] : c \in {t.c, 0}}

\* if timeout != 0 { timeoutTimer.Reset(timeout) }
ResetAfterWake(t, timeout) == IF timeout # 0 THEN TimerReset(t, timeout) ELSE {t}

\* One clock tick: every running timer comes one tick closer and, on its last
\* tick, sends on its channel.
Tick ==
    /\ Alive
    /\ \E l \in Listeners : timer[l].armed
    /\ timer' = [l \in Listeners |->
          IF ~timer[l].armed THEN timer[l]
          ELSE IF timer[l].left > 1 THEN [timer[l] EXCEPT !.left = @ - 1]
          ELSE [armed |-> FALSE, left |-> 0, c |-> 1]]
    /\ UNCHANGED <<engineVars, callerVars, listenerVars, sessPc, sessTimeout,
                   sessRet, fileVars, ioLeft, hist>>

(***************************************************************************)
(* StreamTo (streamer.go:291-342).                                         *)
(***************************************************************************)
Timeouts == {0, IdleTicks}

\* Lines 292-296: the IsRunning check; an admitted call goes on to send the
\* listener on s.subscribe.
StreamToCall(l, timeout) ==
    /\ Alive
    /\ sessPc[l] = "idle"
    /\ IF IsRunning
         THEN /\ sessPc' = [sessPc EXCEPT ![l] = "subscribe"]
              /\ sessTimeout' = [sessTimeout EXCEPT ![l] = timeout]
              /\ sessRet' = [sessRet EXCEPT ![l] = NoRet]
              /\ hist' = [hist EXCEPT ![l] =
                            [NoHist EXCEPT !.used = TRUE,
                                           !.first = ~hist[l].used,
                                           !.closedAtCall = isClosed[l],
                                           !.reuse = isClosed[l] /\ newData[l] = 0]]
         ELSE /\ sessRet' = [sessRet EXCEPT ![l] = ErrNotRunning]
              /\ hist' = [hist EXCEPT ![l] =
                            [NoHist EXCEPT !.used = hist[l].used,
                                           !.via = "notRunning"]]
              /\ UNCHANGED <<sessPc, sessTimeout>>
    /\ UNCHANGED <<engineVars, callerVars, listenerVars, timer, fileVars, ioLeft>>

\* Lines 299-302: the buffer and the timer.
SessGetTimer(l) ==
    /\ Alive
    /\ sessPc[l] = "getTimer"
    /\ timer' = [timer EXCEPT ![l] = GetTimer(sessTimeout[l])]
    /\ sessPc' = [sessPc EXCEPT ![l] = "select"]
    /\ UNCHANGED <<engineVars, callerVars, listenerVars, sessTimeout,
                   sessRet, fileVars, ioLeft, hist>>

\* Faulty variant: the receive's isOpen is ignored, a closed channel wakes.
HasToken_IgnoresOpen(l) == newData[l] > 0 \/ isClosed[l]

\* A receive from newDataNotifications yields a buffered token (isOpen true)
\* while there is one, also on a closed channel.
HasToken(l) == newData[l] > 0
\* ... and reports the channel closed once it is closed and empty.
SeesClosed(l) == newData[l] = 0 /\ isClosed[l]

\* Lines 305, 310: the select takes a token; the session goes on to copy.
SessWake(l) ==
    /\ Alive
    /\ sessPc[l] = "select"
    /\ HasToken(l)
    /\ newData' = [newData EXCEPT ![l] = @ - 1]
    /\ sessPc' = [sessPc EXCEPT ![l] = "copy"]
    /\ UNCHANGED <<engineVars, callerVars, file, filePos, isClosed, sink,
                   sessTimeout, timer, sessRet, fileVars, ioLeft, hist>>

\* Lines 305-308: the select finds the channel closed; return nil.
SessClosed(l) ==
    /\ Alive
    /\ sessPc[l] = "select"
    /\ SeesClosed(l)
    /\ sessRet' = [sessRet EXCEPT ![l] = ErrNone]
    /\ sessPc' = [sessPc EXCEPT ![l] = "unsubscribe"]
    /\ hist' = [hist EXCEPT ![l].via = "closed"]
    /\ UNCHANGED <<engineVars, callerVars, listenerVars, sessTimeout, timer,
                   fileVars, ioLeft>>

\* Lines 333-335: the select takes the timer's tick; return nil.
SessTimeout(l) ==
    /\ Alive
    /\ sessPc[l] = "select"
    /\ timer[l].c = 1
    /\ timer' = [timer EXCEPT ![l].c = 0]
    /\ sessRet' = [sessRet EXCEPT ![l] = ErrNone]
    /\ sessPc' = [sessPc EXCEPT ![l] = "unsubscribe"]
    /\ hist' = [hist EXCEPT ![l].via = "timeout", ![l].early = timer[l].armed]
    /\ UNCHANGED <<engineVars, callerVars, listenerVars, sessTimeout,
                   fileVars, ioLeft>>


\* Faulty variant: the failing session only flushes, without a diagnostic.
WriteDiag_NoDiag(s, flushFails) == SinkFlush(s, flushFails)

\* Lines 315-316: the diagnostic goes to the sink, which is then flushed with
\* the result ignored.
WriteDiag(s, flushFails) == SinkFlush(SinkWrite(s, <<Diag>>), flushFails)

\* The ways io.CopyBuffer(listener.writeDataTo, listener.file, buf) can end for
\* listener l: [ok, sink, pos, cost], cost being the failures injected.
\*  - a sink that has failed before returns its error with nothing read;
\*  - otherwise everything from the cursor to the end of the file is copied;
\*  - or a read fails after k bytes; or a write to the consumer fails after k
\*    bytes were read, and the sink keeps that error.
CopyOutcomes(l) ==
    LET p == file[l]
        pos == filePos[l]
        s == sink[l]
    IN  IF s.err
          THEN {[ok |-> FALSE, sink |-> s, pos |-> pos, cost |-> 0]}
          ELSE {[ok |-> TRUE, sink |-> SinkWrite(s, FileBytes(pos, fileLen[p])),
                 pos |-> fileLen[p], cost |-> 0]}
               \cup
               {[ok |-> FALSE, sink |-> SinkWrite(s, FileBytes(pos, k)),
                 pos |-> k, cost |-> 1] : k \in pos..fileLen[p]}
               \cup
               {[ok |-> FALSE, sink |-> [s EXCEPT !.err = TRUE],
                 pos |-> k, cost |-> 1] : k \in pos..fileLen[p]}

\* Lines 310-320: Seek(0, 1) leaves the cursor where the last read stopped;
\* the copy; on an error the diagnostic, and return err.
SessCopy(l) ==
    /\ Alive
    /\ sessPc[l] = "copy"
    /\ \E o \in CopyOutcomes(l) :
         /\ o.cost <= ioLeft
         /\ filePos' = [filePos EXCEPT ![l] = o.pos]
         /\ IF o.ok
              THEN /\ sink' = [sink EXCEPT ![l] = o.sink]
                   /\ ioLeft' = ioLeft
                   /\ sessPc' = [sessPc EXCEPT ![l] = "flush"]
                   /\ hist' = [hist EXCEPT ![l].passes = Min(@ + 1, 2)]
                   /\ UNCHANGED sessRet
              ELSE /\ \E flushFails \in
                            (IF ioLeft - o.cost > 0 /\ ~o.sink.err
                               THEN BOOLEAN ELSE {FALSE}) :
                        /\ sink' = [sink EXCEPT ![l] = WriteDiag(o.sink, flushFails)]
                        /\ ioLeft' = ioLeft - o.cost - (IF flushFails THEN 1 ELSE 0)
                   /\ sessRet' = [sessRet EXCEPT ![l] = ErrCopy]
                   /\ sessPc' = [sessPc EXCEPT ![l] = "unsubscribe"]
                   /\ hist' = [hist EXCEPT ![l].via = "copyErr",
                                           ![l].diag = Diags(sink'[l]) > Diags(sink[l])]
    /\ UNCHANGED <<engineVars, callerVars, file, newData, isClosed,
                   sessTimeout, timer, fileVars>>

\* Lines 323-340: the flush; on an error return err. Then os.Stat of the
\* file's name: return nil if it is gone, else reset the timer and loop.
SessFlush(l) ==
    /\ Alive
    /\ sessPc[l] = "flush"
    /\ \E fails \in (IF ioLeft > 0 THEN BOOLEAN ELSE {FALSE}) :
         /\ sink' = [sink EXCEPT ![l] = SinkFlush(@, fails)]
         /\ ioLeft' = ioLeft - (IF fails THEN 1 ELSE 0)
         /\ IF fails
              THEN /\ sessRet' = [sessRet EXCEPT ![l] = ErrFlush]
                   /\ sessPc' = [sessPc EXCEPT ![l] = "unsubscribe"]
                   /\ hist' = [hist EXCEPT ![l].via = "flushErr"]
                   /\ UNCHANGED timer
              ELSE IF ~fileExists[file[l]]
              THEN /\ sessRet' = [sessRet EXCEPT ![l] = ErrNone]
                   /\ sessPc' = [sessPc EXCEPT ![l] = "unsubscribe"]
                   /\ hist' = [hist EXCEPT ![l].via = "vanished"]
                   /\ UNCHANGED timer
              ELSE /\ \E t \in ResetAfterWake(timer[l], sessTimeout[l]) :
                        timer' = [timer EXCEPT ![l] = t]
                   /\ sessPc' = [sessPc EXCEPT ![l] = "select"]
                   /\ UNCHANGED <<sessRet, hist>>
    /\ UNCHANGED <<engineVars, callerVars, file, filePos, newData, isClosed,
                   sessTimeout, fileVars>>

(***************************************************************************)
(* The program's steps, by who takes them.                                 *)
(***************************************************************************)
\* Start() called by one of C.
Starts(C) ==
    \/ \E c \in C : StartCall(c)
    \/ \E c \in C : StartInit(c)
    \/ \E c \in C : StartSpawn(c)
    \/ \E c \in C : StartSetRunning(c)

\* Stop() called by one of C.
Stops(C) ==
    \/ \E c \in C : StopCall(c)
    \/ \E c \in C : StopCloseWatcher(c)
    \/ \E c \in C : StopFinish(c)

\* The goroutines of Start while the watcher is open.
Serving ==
    \/ SendChangeEvents
    \/ \E l \in Listeners : RouterRecvSubscribe(l)
    \/ RouterSubscribe
    \/ \E l \in Listeners : RouterRecvUnsubscribe(l)
    \/ RouterUnsubscribe
    \/ RouterDispatch

\* The goroutines of Start.
Goroutines ==
    \/ Serving
    \/ LogNotifyErrors
    \/ RouterExit

\* StreamTo on a listener of L after it was admitted.
Sessions(L) ==
    \/ \E l \in L : SessGetTimer(l)
    \/ \E l \in L : SessWake(l)
    \/ \E l \in L : SessClosed(l)
    \/ \E l \in L : SessCopy(l)
    \/ \E l \in L : SessFlush(l)

\* The callers of StreamTo and Close.
Users(L, T) ==
    \/ \E l \in L, t \in T : StreamToCall(l, t)
    \/ \E l \in L : Close(l)

\* The writers of the files of L.
Writers(L) == \E l \in L : AppendFile(file[l])
WritersNoted(L) == \E l \in L : AppendNoted(file[l])

(***************************************************************************)
(* Specifications.                                                         *)
(*   Spec           one caller of Start and Stop, both listeners, no idle  *)
(*                  timeout, no I/O failure;                               *)
(*   SpecLifecycle  two callers racing Start and Stop, one listener;       *)
(*   SpecTimer      a started engine, one listener with or without an idle *)
(*                  timeout, the clock;                                    *)
(*   SpecIO         a started engine, both listeners, copy and flush       *)
(*                  failures;                                              *)
(*   SpecStream     a started engine that is not stopped, both listeners,  *)
(*                  with the fairness of the Go scheduler;                 *)
(*   SpecDeliver    the same with no listener closed;                      *)
(*   SpecLive       a started engine that may be stopped, both listeners,  *)
(*                  no writer, with the same fairness.                     *)
(***************************************************************************)
Next ==
    \/ Starts({"c1"})
    \/ Stops({"c1"})
    \/ Goroutines
    \/ Sessions(Listeners)
    \/ Users(Listeners, {0})
    \/ Writers(Listeners)

Spec == Init /\ [][Next]_vars

NextLifecycle ==
    \/ Starts(Callers)
    \/ Stops(Callers)
    \/ Goroutines
    \/ Sessions({"l1"})
    \/ Users({"l1"}, {0})
    \/ Writers({"l1"})

SpecLifecycle == Init /\ [][NextLifecycle]_vars

NextTimer ==
    \/ Serving
    \/ Sessions({"l1"})
    \/ \E l \in {"l1"} : SessTimeout(l)
    \/ Users({"l1"}, Timeouts)
    \/ Writers({"l1"})
    \/ Tick

SpecTimer == InitRunning /\ [][NextTimer]_vars

NextIO ==
    \/ Serving
    \/ Sessions(Listeners)
    \/ Users(Listeners, {0})
    \/ Writers(Listeners)

SpecIO == InitRunningIO /\ [][NextIO]_vars

NextStream ==
    \/ Serving
    \/ Sessions(Listeners)
    \/ Users(Listeners, {0})
    \/ WritersNoted(Listeners)

\* The streaming of C1's case: the engine stays Running, nobody closes a
\* listener, so no session ends.
NextDeliver ==
    \/ SendChangeEvents
    \/ \E l \in Listeners : RouterRecvSubscribe(l)
    \/ RouterSubscribe
    \/ RouterDispatch
    \/ \E l \in Listeners : SessGetTimer(l)
    \/ \E l \in Listeners : SessWake(l)
    \/ \E l \in Listeners : SessCopy(l)
    \/ \E l \in Listeners : SessFlush(l)
    \/ \E l \in Listeners : StreamToCall(l, 0)
    \/ WritersNoted(Listeners)

NextLive ==
    \/ Stops({"c1"})
    \/ Goroutines
    \/ Sessions(Listeners)
    \/ Users(Listeners, {0})

\* The scheduler runs every goroutine that can take a step (weak fairness),
\* and a select, which picks at random among its ready cases, takes every
\* case that is ready again and again (strong fairness).  Nothing obliges
\* the callers of Start, Stop, StreamTo and Close, or the writers of files.
Fairness ==
    /\ WF_vars(SendChangeEvents)
    /\ WF_vars(LogNotifyErrors)
    /\ WF_vars(RouterSubscribe)
    /\ WF_vars(RouterUnsubscribe)
    /\ WF_vars(RouterExit)
    /\ SF_vars(RouterDispatch)
    /\ \A l \in Listeners : SF_vars(RouterRecvSubscribe(l))
    /\ \A l \in Listeners : SF_vars(RouterRecvUnsubscribe(l))
    /\ \A l \in Listeners : WF_vars(Sessions({l}))
    /\ \A c \in Callers : WF_vars(StopCloseWatcher(c) \/ StopFinish(c))

SpecStream == InitRunning /\ [][NextStream]_vars /\ Fairness

SpecDeliver == InitRunning /\ [][NextDeliver]_vars /\ Fairness

SpecLive == InitRunning /\ [][NextLive]_vars /\ Fairness


(***************************************************************************)
(* Properties.                                                             *)
(***************************************************************************)
\* StreamTo has executed a return statement with this result (the deferred
\* unsubscribe may still be waiting for the router).
Returning(l) == sessPc[l] = "unsubscribe"
\* The StreamTo call of l is between its subscribe and its unsubscribe.
InFlight(l) == sessPc[l] \in {"getTimer", "select", "copy", "flush", "unsubscribe"}
\* l's wake channel is in the Registry.
Registered(l) == file[l] \in DOMAIN subscriptions /\ l \in subscriptions[file[l]]

\* C4: a StreamTo call made while the engine is not Running returns
\* ErrNotRunning and does nothing else: no subscribe request is sent, no token
\* of the listener is taken, the file is not read, the sink is not written, and
\* the Registry, the router and the watches are as before.
C4_NotRunningRejected ==
    [][\A l \in Listeners :
         (StreamToCall(l, 0) /\ state # stateRunning)
           => /\ sessRet'[l] = ErrNotRunning
              /\ sessPc'[l] = "idle"
              /\ UNCHANGED <<newData, filePos, sink, subscriptions, router,
                             watched, isClosed>>]_vars

\* C4 witness: a call was rejected while Stop() was in progress, and the
\* listener still holds the token of its construction.
C4_Witness ==
    /\ state = stateStopping
    /\ sessRet["l1"] = ErrNotRunning
    /\ sessPc["l1"] = "idle"
    /\ newData["l1"] = 1

\* C5: Start() in a state other than Stopped returns ErrRunning, Stop() in a
\* state other than Running returns ErrNotRunning, and neither changes the
\* engine state, the workers, the WaitGroup, the watcher or any caller's
\* position.
C5_Rejected ==
    [][\A c \in Callers :
         /\ (StartCall(c) /\ state # stateStopped)
              => /\ callerRet'[c] = ErrRunning
                 /\ UNCHANGED <<state, workers, threads, fsNotify, callerPc>>
         /\ (StopCall(c) /\ state # stateRunning)
              => /\ callerRet'[c] = ErrNotRunning
                 /\ UNCHANGED <<state, workers, threads, fsNotify, callerPc>>]_vars

\* C5 witness: a second Stop(), concurrent with one that is waiting for the
\* workers, was rejected.
C5_Witness ==
    /\ callerPc["c1"] = "wait"
    /\ callerRet["c2"] = ErrNotRunning
    /\ state = stateStopping
    /\ workers # {}

\* The edges of the lifecycle.
Edges == {<<stateStopped, stateStarting>>, <<stateStarting, stateRunning>>,
          <<stateRunning, stateStopping>>, <<stateStopping, stateStopped>>}
\* The callers that passed the check of Start and have not returned.
Starting(c) == callerPc[c] \in {"init", "spawn", "setRunning"}

\* C6: every change of the engine state is one of the four edges, and at most
\* one caller at a time is past the check of Start, so the workers are
\* started once.
C6_Edges ==
    /\ [][state' # state => <<state, state'>> \in Edges]_vars
    /\ [](Cardinality({c \in Callers : Starting(c)}) <= 1)
    /\ [](threads <= 3 /\ Cardinality(workers) = threads)

\* C6 witness: of two Start() calls racing on a Stopped engine one is past
\* the check and the other was rejected.
C6_Witness ==
    /\ callerPc["c1"] = "spawn"
    /\ callerRet["c2"] = ErrRunning
    /\ callerPc["c2"] = "idle"

\* C8: when Stop() returns nil the Registry is empty, the three workers have
\* returned, the state is Stopped and no StreamTo call is between its
\* subscribe and its unsubscribe.
C8_StopReturns ==
    [][\A c \in Callers :
         StopFinish(c)
           => /\ callerRet'[c] = ErrNone
              /\ state' = stateStopped
              /\ DOMAIN subscriptions' = {}
              /\ workers' = {} /\ threads' = 0
              /\ \A l \in Listeners : ~InFlight(l)' /\ ~Registered(l)']_vars

\* C8 witness: Stop() has returned nil after a session that was streaming
\* had delivered data and ended.
C8_Witness ==
    /\ state = stateStopped
    /\ callerRet["c1"] = ErrNone
    /\ fsNotify = "closed"
    /\ sessRet["l1"] = ErrNone
    /\ sink["l1"].out # <<>>


\* The StreamTo call of l has returned.
Returned(l) == sessPc[l] = "idle" /\ sessRet[l] # NoRet

\* C3: a StreamTo call on a Running engine whose listener was closed before
\* it was ever streamed makes exactly one copy to the end of the file and
\* returns nil.
C3_ExactlyOnePass ==
    \A l \in Listeners :
        (Returned(l) /\ hist[l].first /\ hist[l].closedAtCall)
          => hist[l].passes = 1 /\ sessRet[l] = ErrNone

\* C7: a session leaves by the timer branch only with a positive timeout, and
\* only when the window started by getTimer or by the Reset after the last
\* processed wake has run out.
C7_IdleTimeout ==
    \A l \in Listeners :
        hist[l].via = "timeout" => sessTimeout[l] # 0 /\ ~hist[l].early

\* The part of C7 about idleTimeout == 0 alone.
C7_ZeroNeverTimesOut ==
    \A l \in Listeners : hist[l].via = "timeout" => sessTimeout[l] # 0


\* C10 as claimed: a session that fails, in the copy or in the flush, has
\* written the diagnostic into its sink when StreamTo returns, and StreamTo
\* returns the error of the failing step.
C10_DiagOnEveryFailure ==
    \A l \in Listeners :
        (Returned(l) /\ hist[l].via \in {"copyErr", "flushErr"})
          => /\ hist[l].diag
             /\ sessRet[l] = (IF hist[l].via = "copyErr" THEN ErrCopy ELSE ErrFlush)

\* C10 amended: after a failed copy the session writes the diagnostic and
\* flushes, so a sink without a write error of its own has delivered the
\* diagnostic as its last byte, and StreamTo returns the copy's error; after a
\* failed flush (which leaves the sink in error) no diagnostic is written, and
\* StreamTo returns the flush's error.
C10_DiagOnCopyFailure ==
    \A l \in Listeners :
        Returned(l) =>
          /\ hist[l].via = "copyErr"
               => /\ sessRet[l] = ErrCopy
                  /\ ~sink[l].err
                       => /\ hist[l].diag
                          /\ sink[l].buf = <<>>
                          /\ sink[l].out # <<>>
                          /\ sink[l].out[Len(sink[l].out)] = Diag
          /\ hist[l].via = "flushErr"
               => /\ sessRet[l] = ErrFlush
                  /\ ~hist[l].diag
                  /\ sink[l].err

\* C10 witness: a copy failed after part of the file was read; the consumer
\* has that part followed by the diagnostic, and StreamTo returned the error.
C10_Witness ==
    /\ Returned("l1")
    /\ hist["l1"].via = "copyErr"
    /\ sessRet["l1"] = ErrCopy
    /\ sink["l1"].out = <<1, Diag>>
    /\ fileLen["a"] = 2


\* Some listener has been closed.
AnyClosed == \E k \in Listeners : isClosed[k]
\* The consumer of l has received fewer bytes than l is owed.
Behind(l) == Len(sink[l].out) < hist[l].owed
\* The consumer of l has received the file, in order, at least as far as the
\* appends l is owed.
CaughtUp(l) ==
    /\ Len(sink[l].out) >= hist[l].owed
    /\ sink[l].out = FileBytes(0, Len(sink[l].out))

\* C1: on an engine that stays Running, with no listener closed, no timeout
\* and no I/O failure, every append made to a watched file while a listener is
\* in the Registry for it is eventually delivered in full to that listener's
\* consumer, whatever tokens the router skipped.
C1_AppendsDelivered ==
    \A l \in Listeners : Behind(l) ~> CaughtUp(l)

\* C1 witness: both sessions of the file have delivered both appends they
\* were owed, the first of them in two passes.
C1_Witness ==
    /\ \A l \in Listeners :
         /\ hist[l].owed = 2
         /\ sink[l].out = <<1, 2>>
         /\ sessPc[l] = "select"
    /\ hist["l1"].passes = 2
    /\ ~AnyClosed

\* C2: once a listener is closed while its StreamTo(listener, 0) call is in
\* progress on a Running engine, the call eventually returns nil.
C2_CloseEndsStreamTo ==
    \A l \in Listeners :
        (isClosed[l] /\ sessPc[l] # "idle") ~> (Returned(l) /\ sessRet[l] = ErrNone)

\* C9: once Stop() has passed its check, every session in flight eventually
\* returns and Stop() returns with the engine Stopped.
C9_StopFinishesSessions ==
    \A c \in Callers :
        (callerPc[c] = "closeWatcher")
          ~> (state = stateStopped /\ \A l \in Listeners : ~InFlight(l))


(***************************************************************************)
(*   SpecVanish     a started engine that is not stopped, both listeners,  *)
(*                  writers, and the deletion of the files.                *)
(***************************************************************************)
Deleters(L) == \E l \in L : DeleteFile(file[l])

NextVanish ==
    \/ Serving
    \/ Sessions(Listeners)
    \/ Users(Listeners, {0})
    \/ Writers(Listeners)
    \/ Deleters(Listeners)

SpecVanish == InitRunning /\ [][NextVanish]_vars

\* The router has received l's unsubscribe request and is about to apply it.
Unsubscribing(l) == router.op = "unsubscribe" /\ router.arg = l

\* C11: when os.Stat finds the file gone after a successful copy and flush,
\* StreamTo returns nil, the bytes copied so far have reached the consumer,
\* and once StreamTo has returned the listener is out of the Registry as soon
\* as the router has applied the unsubscribe it received.
C11_SourceVanished ==
    /\ [][\A l \in Listeners :
            (SessFlush(l) /\ ~fileExists[file[l]] /\ ~sink'[l].err)
              => /\ sessRet'[l] = ErrNone
                 /\ sessPc'[l] = "unsubscribe"
                 /\ sink'[l].out = sink[l].out \o sink[l].buf
                 /\ sink'[l].buf = <<>>]_vars
    /\ [](\A l \in Listeners :
            (Returned(l) /\ hist[l].via = "vanished")
              => /\ sessRet[l] = ErrNone
                 /\ sink[l].out = FileBytes(0, filePos[l])
                 /\ Registered(l) => Unsubscribing(l))

\* C11 witness: the file was deleted after a byte was appended; the session
\* copied the byte, found the file gone, returned nil and is unsubscribed.
C11_Witness ==
    /\ Returned("l1")
    /\ hist["l1"].via = "vanished"
    /\ sessRet["l1"] = ErrNone
    /\ ~fileExists["a"]
    /\ sink["l1"].out = <<1>>
    /\ ~Registered("l1")
    /\ router.op = "select"


C13_NoSendOnClosed ==
    /\ [](~panicked)
    /\ [][RouterDispatch /\ changed.q # <<>> => ~SendPanics(Head(changed.q))]_vars


\* C14: a StreamTo call that passed the IsRunning check and whose listener is
\* closed returns, whatever Stop() does meanwhile: it is not left blocked on
\* its send on s.subscribe.
C14_RaceTerminates ==
    \A l \in Listeners :
        (sessPc[l] = "subscribe" /\ isClosed[l]) ~> (Returned(l) \/ panicked)

\* The part of C14 about reading: no session copies or flushes while the
\* engine is Stopped.
C14_NoReadWhileStopped ==
    state = stateStopped => \A l \in Listeners : sessPc[l] \notin {"copy", "flush"}


\* C15: the unsubscribe request a returning session sends is eventually
\* received by the router, so that StreamTo returns and the listener leaves
\* the Registry.
C15_UnsubscribeAccepted ==
    \A l \in Listeners :
        (sessPc[l] = "unsubscribe")
          ~> (Returned(l) /\ (Registered(l) => Unsubscribing(l)))

\* The same, except where the router has panicked.
C15_AcceptedUnlessPanic ==
    \A l \in Listeners :
        (sessPc[l] = "unsubscribe")
          ~> (panicked \/ (Returned(l) /\ (Registered(l) => Unsubscribing(l))))

\* The part of C15 about the exit paths: every return statement of an
\* admitted call is followed by the deferred send on s.unsubscribe, and a
\* call that has returned is in the Registry only until the router applies
\* the unsubscribe it has received.
C15_EveryExitUnsubscribes ==
    /\ [][\A l \in Listeners :
            (sessRet'[l] # sessRet[l] /\ sessRet'[l] # NoRet /\ sessPc[l] # "idle")
              => sessPc'[l] = "unsubscribe"]_vars
    /\ [](\A l \in Listeners :
            (sessPc[l] = "idle" /\ Registered(l)) => Unsubscribing(l))

\* The part of C15 about the Registry, read to the letter: a call that has
\* returned is not in the Registry.
C15_ReturnedNotRegistered ==
    \A l \in Listeners : Returned(l) => ~Registered(l)


(***************************************************************************)
(*   SpecPaths      a started engine that is not stopped, the two          *)
(*                  listeners on two different files, writers.             *)
(***************************************************************************)
InitPaths == InitStarted /\ InitListeners(OtherPath, 0)

NextPaths ==
    \/ Serving
    \/ Sessions(Listeners)
    \/ Users(Listeners, {0})
    \/ Writers(Listeners)

SpecPaths == InitPaths /\ [][NextPaths]_vars

\* The router has applied l's subscribe request and has not yet received its
\* unsubscribe request.
Subscribed(l) ==
    /\ sessPc[l] \in {"getTimer", "select", "copy", "flush", "unsubscribe"}
    /\ ~(router.op = "subscribe" /\ router.arg = l)

\* C16: the Registry has an entry for a path iff a wake channel is subscribed
\* to it: no entry is empty, an entry holds only listeners of its path, every
\* subscribed listener is in the entry of its path, and a listener in an entry
\* is subscribed or is just being unsubscribed by the router.
C16_RegistryEntries ==
    /\ \A p \in DOMAIN subscriptions :
         /\ subscriptions[p] # {}
         /\ \A l \in subscriptions[p] : file[l] = p
    /\ \A l \in Listeners :
         /\ Subscribed(l) => Registered(l)
         /\ Registered(l) => (Subscribed(l) \/ Unsubscribing(l))
    /\ \A p \in Paths :
         p \in DOMAIN subscriptions
           <=> \E l \in Listeners :
                 file[l] = p /\ (Subscribed(l) \/ (Registered(l) /\ Unsubscribing(l)))

\* C16 witness: both files had an entry; the listener of b has been
\* unsubscribed after streaming and only the entry of a is left.
C16_Witness ==
    /\ DOMAIN subscriptions = {"a"}
    /\ subscriptions["a"] = {"l1"}
    /\ Returned("l2")
    /\ hist["l2"].passes = 1
    /\ router.op = "select"
    /\ file["l2"] = "b"


\* The watcher is open and the files exist, so Add and Remove succeed.
WatcherWorks == fsNotify = "open" /\ \A p \in Paths : fileExists[p]

\* C17: while the watcher is open and its calls succeed, a path is watched
\* iff it has a Registry entry; the router adds the watch exactly with the
\* first listener of a path and removes it exactly with the last.
C17_WatchFollowsRegistry ==
    /\ [](WatcherWorks => watched = DOMAIN subscriptions)
    /\ [][(WatcherWorks /\ RouterSubscribe)
            => LET p == file[router.arg]
               IN  /\ p \in watched'
                   /\ (p \notin watched) <=> (p \notin DOMAIN subscriptions)
                   /\ watched' \ {p} = watched \ {p}]_vars
    /\ [][(WatcherWorks /\ RouterUnsubscribe)
            => LET p == file[router.arg]
               IN  /\ (p \notin watched') <=> (subscriptions[p] = {router.arg})
                   /\ watched' \ {p} = watched \ {p}]_vars

\* C17 witness: both listeners of a had subscribed and left, which removed
\* the watch; l1 was subscribed again and a is watched again.
C17_Witness ==
    /\ WatcherWorks
    /\ hist["l1"].reuse
    /\ subscriptions = [p \in {"a"} |-> {"l1"}]
    /\ watched = {"a"}
    /\ Returned("l2")
    /\ hist["l2"].passes = 1
    /\ router.op = "select"


\* C18 as claimed: a wake channel never holds more than one token.
C18_SinglePending == \A l \in Listeners : newData[l] <= 1

\* C18 amended: a wake channel holds at most as many tokens as its capacity;
\* a dispatch adds one token to every channel of the changed file's entry
\* that has room and nothing to a channel that is full, and touches no other
\* channel.
C18_BoundedPending ==
    /\ [](\A l \in Listeners : newData[l] \in 0..NotifCap)
    /\ [][(RouterDispatch /\ changed.q # <<>> /\ ~panicked')
            => LET p == Head(changed.q)
               IN  \A l \in Listeners :
                     newData'[l] =
                       IF Registered(l) /\ file[l] = p /\ newData[l] < NotifCap
                         THEN newData[l] + 1 ELSE newData[l]]_vars

\* C18 witness: a change of a is about to be dispatched while the channel of
\* l1, which is in the entry of a, is full.
C18_Witness ==
    /\ newData["l1"] = NotifCap
    /\ Registered("l1")
    /\ ~isClosed["l1"]
    /\ changed.q # <<>>
    /\ Head(changed.q) = "a"
    /\ router.op = "select" /\ router.loop = "main"
    /\ ~panicked


\* The router is at the select of its main loop with a change event to take.
DispatchReady ==
    /\ RouterSelects
    /\ router.loop = "main"
    /\ changed.q # <<>>

\* C19: the router's handling of a change event waits for no session and
\* completes: whenever an event is ready the dispatch can be taken, whatever
\* the sessions are doing and however full their channels are, and after it
\* the router is back at its select, serving subscribe and unsubscribe.
C19_DispatchCompletes ==
    /\ [](DispatchReady => ENABLED RouterDispatch)
    /\ [][(DispatchReady /\ RouterDispatch)
            => /\ RouterSelects'
               /\ UNCHANGED <<sessPc, subscriptions, watched>>]_vars

\* The part of C19 about blocking alone: the dispatch is never disabled by a
\* session, and when no channel of the entry is closed the router is back at
\* its select after it.
C19_NeverBlocks ==
    /\ [](DispatchReady => ENABLED RouterDispatch)
    /\ [][(DispatchReady /\ RouterDispatch /\ ~SendPanics(Head(changed.q)))
            => /\ RouterSelects'
               /\ UNCHANGED <<sessPc, subscriptions, watched>>]_vars


\* The router has found changedFileNames closed and left its main loop.
Draining == RouterRuns /\ router.loop = "drain"

\* C20: once the router has found the change-event stream closed it adds no
\* token to any channel and takes no event; at the select of its draining
\* loop, while the Registry is not empty, it receives every subscribe and
\* unsubscribe request that is waiting; it returns only from the draining
\* loop with an empty Registry, and with an empty Registry it receives no
\* request any more: its only step is to return.
C20_DrainThenExit ==
    /\ [][Draining
            => /\ UNCHANGED changed
               /\ \A l \in Listeners : newData'[l] <= newData[l]]_vars
    /\ [](\A l \in Listeners :
            (Draining /\ router.op = "select" /\ DOMAIN subscriptions # {})
              => /\ sessPc[l] = "subscribe" => ENABLED RouterRecvSubscribe(l)
                 /\ sessPc[l] = "unsubscribe" => ENABLED RouterRecvUnsubscribe(l))
    /\ [][("eventsRouter" \in workers /\ "eventsRouter" \notin workers')
            => /\ router.loop = "drain"
               /\ changed.closed /\ changed.q = <<>>
               /\ DOMAIN subscriptions = {}]_vars
    /\ []((Draining /\ DOMAIN subscriptions = {})
            => /\ router.op = "select"
               /\ ENABLED RouterExit
               /\ \A l \in Listeners :
                    /\ ~ENABLED RouterRecvSubscribe(l)
                    /\ ~ENABLED RouterRecvUnsubscribe(l))

\* The part of C20 about the exit as a liveness property: a router that is
\* draining with an empty Registry returns.
C20_ExitsWhenEmpty ==
    (Draining /\ DOMAIN subscriptions = {}) ~> ("eventsRouter" \notin workers)

\* C20 witness: the router has returned from its draining loop after both
\* sessions, which had streamed, were unsubscribed during the shutdown.
C20_Witness ==
    /\ "eventsRouter" \notin workers
    /\ router.loop = "drain"
    /\ state = stateStopping
    /\ \A l \in Listeners :
         Returned(l) /\ hist[l].via = "closed" /\ sink[l].out = <<1>>
    /\ DOMAIN subscriptions = {}


(***************************************************************************)
(*   SpecNoWatch    a running engine, both listeners, writers, the         *)
(*                  deletion of the files, with the failures of            *)
(*                  fsNotify.Add noted.                                    *)
(***************************************************************************)
NextNoWatch ==
    \/ SendChangeEvents
    \/ \E l \in Listeners : RouterRecvSubscribe(l)
    \/ RouterSubscribeNoted
    \/ \E l \in Listeners : RouterRecvUnsubscribe(l)
    \/ RouterUnsubscribe
    \/ RouterDispatch
    \/ Sessions(Listeners)
    \/ Users(Listeners, {0})
    \/ Writers(Listeners)
    \/ Deleters(Listeners)

SpecNoWatch == InitRunning /\ [][NextNoWatch]_vars

\* C21: when fsNotify.Add fails in subscribeListener the listener is put in
\* the Registry entry of its file all the same and nothing is reported to the
\* session; the call does not return an error, and a call on a listener that
\* was never streamed still makes its first copy to the end of the file, from
\* the token of NewListener, before it waits or returns.
C21_AddFailureTolerated ==
    /\ [][\A l \in Listeners :
            (RouterSubscribeStep /\ router.arg = l /\ AddFails(subscriptions, l))
              => /\ Registered(l)'
                 /\ subscriptions'[file[l]] = {l}
                 /\ file[l] \notin watched'
                 /\ UNCHANGED <<sessPc, sessRet, newData>>]_vars
    /\ [](\A l \in Listeners :
            hist[l].noWatch
              => /\ Returned(l) => sessRet[l] = ErrNone
                 /\ (hist[l].first /\ (Returned(l) \/ Returning(l)
                                       \/ (sessPc[l] = "select" /\ newData[l] = 0)))
                      => hist[l].passes >= 1)

\* C21 witness: the file of l1 was deleted before l1 subscribed, so the Add
\* failed; the session copied the byte the file held and returned nil.
C21_Witness ==
    /\ hist["l1"].noWatch
    /\ hist["l1"].first
    /\ Returned("l1")
    /\ sessRet["l1"] = ErrNone
    /\ hist["l1"].passes = 1
    /\ sink["l1"].out = <<1>>
    /\ ~Registered("l1")


\* The step is a copy or flush of l's session that fails.
IOFailure(l) ==
    /\ SessCopy(l) \/ SessFlush(l)
    /\ sessRet'[l] \in {ErrCopy, ErrFlush}

\* What the claim names of a session: its membership of the Registry, its
\* pending tokens, its read cursor, its sink.
SessionOf(m) == <<Registered(m), newData[m], filePos[m], sink[m]>>

\* C22: a copy or flush failure of one session changes nothing of the engine
\* (it is Running before and after, the router's goroutine and position, the
\* Registry and the watches are unchanged) and nothing of any other session
\* (membership, tokens, cursor, sink, position of its call); the failing call
\* goes on to its deferred unsubscribe, the router's receipt of which changes
\* no session, and whose application removes that listener from the Registry
\* and nobody else, with the router still running and the engine Running.
C22_FailureIsLocal ==
    /\ [][\A l \in Listeners : IOFailure(l) =>
            /\ state = stateRunning /\ state' = stateRunning
            /\ UNCHANGED <<engineVars, fileVars>>
            /\ "eventsRouter" \in workers'
            /\ Returning(l)'
            /\ \A m \in Listeners \ {l} :
                 UNCHANGED <<SessionOf(m), sessPc[m], sessRet[m], timer[m]>>]_vars
    /\ [][\A l \in Listeners :
            (RouterRecvUnsubscribe(l) /\ sessRet[l] \in {ErrCopy, ErrFlush}) =>
              /\ state' = stateRunning /\ "eventsRouter" \in workers'
              /\ UNCHANGED subscriptions
              /\ \A m \in Listeners : UNCHANGED SessionOf(m)]_vars
    /\ [][\A l \in Listeners :
            (RouterUnsubscribe /\ router.arg = l) =>
              /\ state' = stateRunning /\ "eventsRouter" \in workers'
              /\ RouterRuns' /\ router'.op = "select"
              /\ ~Registered(l)'
              /\ \A m \in Listeners \ {l} :
                   /\ UNCHANGED <<SessionOf(m), sessPc[m], sessRet[m]>>
                   /\ (Registered(m) /\ file[m] \in watched) => file[m] \in watched']_vars

\* C22 witness: l1's call has failed and l1 is out of the Registry, while l2,
\* on the same file, is registered, has delivered the file to its consumer and
\* waits at its select, the router running in a Running engine.
C22_Witness ==
    /\ Returned("l1") /\ sessRet["l1"] \in {ErrCopy, ErrFlush}
    /\ ~Registered("l1")
    /\ file["l2"] = file["l1"] /\ Registered("l2")
    /\ sessPc["l2"] = "select" /\ sink["l2"].out = <<1, 2>>
    /\ filePos["l2"] = 2
    /\ state = stateRunning /\ RouterRuns /\ router.op = "select"


\* Everything l's sink has been given, delivered to the consumer or buffered.
Delivered(l) == sink[l].out \o sink[l].buf

\* C23: on a file that is only appended to, with no I/O failure, a listener's
\* read cursor never decreases; each copy starts at the cursor the previous
\* one left and gives the sink the bytes from there to the end of the file;
\* and at every moment, over all the wakes and calls of the listener, the
\* bytes its sink has been given are the bytes of the file from the initial
\* cursor (0) up to the cursor, in order, none twice and none skipped, all of
\* them with the consumer whenever the session is not between copy and flush.
C23_ReadsContinue ==
    /\ [][\A l \in Listeners :
            /\ filePos'[l] >= filePos[l]
            /\ SessCopy(l) =>
                 /\ filePos'[l] = fileLen[file[l]]
                 /\ Delivered(l)' = Delivered(l) \o FileBytes(filePos[l], filePos'[l])
            /\ ~SessCopy(l) => UNCHANGED <<filePos[l], Delivered(l)>>]_vars
    /\ [](\A l \in Listeners :
            /\ Delivered(l) = FileBytes(0, filePos[l])
            /\ sessPc[l] # "flush" => sink[l].buf = <<>>)

\* C23 witness: l1's second copy has continued from byte 1, which its consumer
\* already has, and has put byte 2 in the buffer, while l2 on the same file
\* still has its cursor at 0.
C23_Witness ==
    /\ sessPc["l1"] = "flush" /\ hist["l1"].passes = 2
    /\ sink["l1"].out = <<1>> /\ sink["l1"].buf = <<2>> /\ filePos["l1"] = 2
    /\ file["l2"] = file["l1"] /\ filePos["l2"] = 0


\* A call of Start is between its state check and its return.
InStart(c) == callerPc[c] \in {"init", "spawn", "setRunning"}

\* The engine is Starting and no call of Start is in progress.
StuckStarting == state = stateStarting /\ \A c \in Callers : ~InStart(c)

\* C24: the engine is Starting only while a call of Start is in progress:
\* every admitted Start, also one whose init fails, leaves it Running or
\* Stopped when it returns.
C24_NeverLeftStarting == ~StuckStarting

\* What follows once it is violated: the state stays Starting for ever, and
\* from then on every Start returns ErrRunning and every Stop ErrNotRunning.
C24_StuckForGood ==
    [][StuckStarting =>
         /\ StuckStarting'
         /\ \A c \in Callers :
              /\ StartCall(c) => callerRet'[c] = ErrRunning
              /\ StopCall(c) => callerRet'[c] = ErrNotRunning]_vars

\* A call of Start has returned the error of init and a later call of Start
\* has been refused, on an engine that has never run.
C24_Refused ==
    /\ StuckStarting
    /\ callerRet["c1"] = ErrInit /\ callerRet["c2"] = ErrRunning
    /\ fsNotify = "nil" /\ workers = {}

=============================================================================
